---- MODULE Spec2Model ----
(***************************************************************************)
(* Model of PdfPixel.PdfPanel.Web/Native/emscripten.c: the helpers that    *)
(* run a function on the browser main thread (synchronously or             *)
(* asynchronously) and the thin wrappers around the per-thread WebGL       *)
(* context calls.                                                          *)
(*                                                                         *)
(* Integers of the C code are kept at their width.  A C integer is a       *)
(* little-endian tuple of 16-bit limbs in two's complement: an int32_t is  *)
(* two limbs, an int64_t four.  <<65535, 65535>> is the int32_t -1.        *)
(***************************************************************************)
EXTENDS Integers, Sequences, FiniteSets, TLC

VARIABLES
    wasm64,     \* build: TRUE when __wasm64__ is defined (lines 18-24)
    req,        \* every dispatch call made so far, by call number
    queue,      \* the main thread's queue of proxied calls (call numbers)
    stack,      \* per thread: the dispatched functions it is executing
    pc,         \* per thread: "idle" or "blocked" inside a sync dispatch
    blockedOn,  \* per thread: the call a blocked thread waits for (0: none)
    ownerWait,  \* the worker the main thread's task waits for (0: nobody)
    contexts,   \* WebGL context handles created so far
    cur,        \* per thread: the context handle current on it
    lastMade,   \* per thread: argument of its last successful make-current
    last,       \* the last WebGL wrapper call: thread, function, value returned
    ctxAttrs,   \* per context: its attributes, canvas and creating thread
    canvas,     \* the document's canvases: bitmap size and CSS size
    resized     \* per canvas resized so far: the size last asked for

dispatchVars == <<req, queue, stack, pc, blockedOn, ownerWait>>
glVars == <<contexts, cur, lastMade, last, ctxAttrs, canvas, resized>>
vars == <<wasm64, req, queue, stack, pc, blockedOn, ownerWait,
          contexts, cur, lastMade, last, ctxAttrs, canvas, resized>>

(***************************************************************************)
(* Bounds of the model.                                                    *)
(***************************************************************************)
NumWorkers == 2
MaxRequests == 2
MaxContexts == 2

\* Thread 0 is the browser main thread; the others are pthreads (workers).
Owner == 0
Workers == 1..NumWorkers
Threads == {Owner} \cup Workers

(***************************************************************************)
(* C integers as limb tuples.                                              *)
(***************************************************************************)
LimbBase == 2^16
MaxLimb == LimbBase - 1

Int32Limbs == 32 \div 16
Int64Limbs == 64 \div 16

IsNegative(v) == v[Len(v)] >= LimbBase \div 2

\* Conversion of a signed integer to a signed type of n limbs: the low limbs
\* are kept when narrowing, the sign is extended when widening.
Convert(v, n) ==
    IF n <= Len(v)
    THEN SubSeq(v, 1, n)
    ELSE v \o [i \in 1..(n - Len(v)) |-> IF IsNegative(v) THEN MaxLimb ELSE 0]

\* A small C int constant as an int (two limbs).
IntConst(n) ==
    IF n >= 0 THEN <<n % LimbBase, n \div LimbBase>>
    ELSE <<LimbBase + n, MaxLimb>>

Zero(n) == [i \in 1..n |-> 0]

\* typedef em_ptr_int_t: int64_t under __wasm64__, int32_t otherwise.
PtrLimbsOf(w64) == IF w64 THEN Int64Limbs ELSE Int32Limbs
em_ptr_int_t == PtrLimbsOf(wasm64)

\* EM_FUNC_SIG_VPTR: EM_FUNC_SIG_VJ (one int64 parameter) under __wasm64__,
\* EM_FUNC_SIG_VI (one int32 parameter) otherwise.
EM_FUNC_SIG_VPTR_Narrow == "VI"
EM_FUNC_SIG_VPTR == IF wasm64 THEN "VJ" ELSE "VI"

\* The width at which the proxying call reads the argument the signature
\* announces.
SigLimbs(sig) == IF sig = "VJ" THEN Int64Limbs ELSE Int32Limbs

\* The value func receives when the call is proxied under signature sig:
\* read at the signature's width, then passed as an em_ptr_int_t.
Proxied(sig, arg) ==
    IF sig = "V" THEN arg ELSE Convert(Convert(arg, SigLimbs(sig)), em_ptr_int_t)

\* Arguments the callers pass: zero, -1, the most negative value, and (on
\* wasm64) values that do not fit 32 bits.
ArgsOf(w64) ==
    IF w64
    THEN {<<0, 0, 0, 0>>, <<MaxLimb, MaxLimb, 0, 0>>, <<0, 0, 0, LimbBase \div 2>>}
    ELSE {<<0, 0>>, <<MaxLimb, MaxLimb>>, <<0, LimbBase \div 2>>}
Args == ArgsOf(wasm64)
NoArg == <<>>

(***************************************************************************)
(* Dispatch to the main thread.                                            *)
(***************************************************************************)

\* emscripten_is_main_browser_thread() as evaluated by thread t.
IsMain_Always(t) == TRUE
IsMain_Negated(t) == t # Owner
emscripten_is_main_browser_thread(t) == t = Owner

\* Thread t is running application code and may make a call.
Running(t) ==
    /\ pc[t] = "idle"
    /\ t = Owner => ownerWait = 0
CanCall(t) == Running(t) /\ Len(req) < MaxRequests

NewCall(t, kind, sig, arg) ==
    [by |-> t, kind |-> kind, sig |-> sig, arg |-> arg, inplace |-> FALSE,
     status |-> "queued", returned |-> FALSE, execBy |-> -1, execCount |-> 0,
     received |-> NoArg]

\* func() / func(arg) called directly by thread t: the call is on t's stack
\* until func returns.
CallInPlace(t, kind, sig, arg) ==
    /\ req' = Append(req, [NewCall(t, kind, sig, arg) EXCEPT
                              !.inplace = TRUE, !.status = "running",
                              !.execBy = t, !.execCount = 1, !.received = arg])
    /\ stack' = [stack EXCEPT ![t] = Append(@, Len(req) + 1)]
    /\ UNCHANGED <<queue, pc, blockedOn>>

\* emscripten_sync_run_in_main_runtime_thread(sig, func, ...): the call is
\* queued for the main thread and the caller waits until it has been run.
emscripten_sync_run_in_main_runtime_thread(t, kind, sig, arg) ==
    /\ req' = Append(req, NewCall(t, kind, sig, arg))
    /\ queue' = Append(queue, Len(req) + 1)
    /\ pc' = [pc EXCEPT ![t] = "blocked"]
    /\ blockedOn' = [blockedOn EXCEPT ![t] = Len(req) + 1]
    /\ UNCHANGED stack

\* emscripten_async_run_in_main_runtime_thread(sig, func, ...): the call is
\* queued for the main thread and the caller goes on at once.
emscripten_async_run_in_main_runtime_thread(t, kind, sig, arg) ==
    /\ req' = Append(req, [NewCall(t, kind, sig, arg) EXCEPT !.returned = TRUE])
    /\ queue' = Append(queue, Len(req) + 1)
    /\ UNCHANGED <<stack, pc, blockedOn>>

\* void dotnet_sync_main_thread(void (*func)(void))
dotnet_sync_main_thread(t) ==
    IF emscripten_is_main_browser_thread(t)
    THEN CallInPlace(t, "sync", "V", NoArg)
    ELSE emscripten_sync_run_in_main_runtime_thread(t, "sync", "V", NoArg)

\* The same with the asynchronous library call in the else branch.
SyncArg_NotWaiting(t, arg) ==
    IF emscripten_is_main_browser_thread(t)
    THEN CallInPlace(t, "sync_arg", EM_FUNC_SIG_VPTR, arg)
    ELSE emscripten_async_run_in_main_runtime_thread(t, "sync_arg", EM_FUNC_SIG_VPTR, arg)

\* void dotnet_sync_main_thread_arg(void (*func)(em_ptr_int_t), em_ptr_int_t arg)
dotnet_sync_main_thread_arg(t, arg) ==
    IF emscripten_is_main_browser_thread(t)
    THEN CallInPlace(t, "sync_arg", EM_FUNC_SIG_VPTR, arg)
    ELSE emscripten_sync_run_in_main_runtime_thread(t, "sync_arg", EM_FUNC_SIG_VPTR, arg)

\* The same with the synchronous library call in the else branch.
Async_Waiting(t, arg) ==
    IF emscripten_is_main_browser_thread(t)
    THEN CallInPlace(t, "async", EM_FUNC_SIG_VPTR, arg)
    ELSE emscripten_sync_run_in_main_runtime_thread(t, "async", EM_FUNC_SIG_VPTR, arg)

\* The same with the else branch left empty: nothing is posted.
Async_NotPosted(t, arg) ==
    IF emscripten_is_main_browser_thread(t)
    THEN CallInPlace(t, "async", EM_FUNC_SIG_VPTR, arg)
    ELSE /\ req' = Append(req, [NewCall(t, "async", EM_FUNC_SIG_VPTR, arg)
                                   EXCEPT !.returned = TRUE])
         /\ UNCHANGED <<queue, stack, pc, blockedOn>>

\* The same without the else: func(arg) is called and then posted as well.
Async_NoElse(t, arg) ==
    IF emscripten_is_main_browser_thread(t)
    THEN /\ req' = Append(req, [NewCall(t, "async", EM_FUNC_SIG_VPTR, arg) EXCEPT
                                   !.inplace = TRUE, !.status = "running",
                                   !.execBy = t, !.execCount = 1, !.received = arg])
         /\ stack' = [stack EXCEPT ![t] = Append(@, Len(req) + 1)]
         /\ queue' = Append(queue, Len(req) + 1)
         /\ UNCHANGED <<pc, blockedOn>>
    ELSE emscripten_async_run_in_main_runtime_thread(t, "async", EM_FUNC_SIG_VPTR, arg)

\* void dotnet_async_run_in_main_runtime_thread(void (*func)(em_ptr_int_t),
\*                                              em_ptr_int_t arg)
dotnet_async_run_in_main_runtime_thread(t, arg) ==
    IF emscripten_is_main_browser_thread(t)
    THEN CallInPlace(t, "async", EM_FUNC_SIG_VPTR, arg)
    ELSE emscripten_async_run_in_main_runtime_thread(t, "async", EM_FUNC_SIG_VPTR, arg)

SyncDispatch ==
    \E t \in Threads :
        /\ CanCall(t)
        /\ dotnet_sync_main_thread(t)
        /\ UNCHANGED <<wasm64, ownerWait, glVars>>

SyncDispatchArg ==
    \E t \in Threads, arg \in Args :
        /\ CanCall(t)
        /\ dotnet_sync_main_thread_arg(t, arg)
        /\ UNCHANGED <<wasm64, ownerWait, glVars>>

AsyncDispatch ==
    \E t \in Threads, arg \in Args :
        /\ CanCall(t)
        /\ dotnet_async_run_in_main_runtime_thread(t, arg)
        /\ UNCHANGED <<wasm64, ownerWait, glVars>>

\* A main thread that takes the newest queued call.
OwnerDequeue_Newest ==
    /\ Running(Owner)
    /\ stack[Owner] = <<>>
    /\ queue # <<>>
    /\ LET r == queue[Len(queue)] IN
        /\ req' = [req EXCEPT ![r].status = "running",
                              ![r].execBy = Owner,
                              ![r].execCount = @ + 1,
                              ![r].received = Proxied(req[r].sig, req[r].arg)]
        /\ stack' = [stack EXCEPT ![Owner] = Append(@, r)]
    /\ queue' = SubSeq(queue, 1, Len(queue) - 1)
    /\ UNCHANGED <<wasm64, pc, blockedOn, ownerWait, glVars>>

\* The main thread, back in its event loop, takes the oldest queued call and
\* calls its function with the argument read under the call's signature.
OwnerDequeue ==
    /\ Running(Owner)
    /\ stack[Owner] = <<>>
    /\ queue # <<>>
    /\ LET r == Head(queue) IN
        /\ req' = [req EXCEPT ![r].status = "running",
                              ![r].execBy = Owner,
                              ![r].execCount = @ + 1,
                              ![r].received = Proxied(req[r].sig, req[r].arg)]
        /\ stack' = [stack EXCEPT ![Owner] = Append(@, r)]
    /\ queue' = Tail(queue)
    /\ UNCHANGED <<wasm64, pc, blockedOn, ownerWait, glVars>>

\* The function on top of thread t's stack returns.  A function called in
\* place returns into the dispatch call, which returns to its caller.
CallableReturn ==
    \E t \in Threads :
        /\ Running(t)
        /\ stack[t] # <<>>
        /\ LET r == stack[t][Len(stack[t])] IN
            req' = [req EXCEPT ![r].status = "done",
                               ![r].returned = @ \/ req[r].inplace]
        /\ stack' = [stack EXCEPT ![t] = SubSeq(@, 1, Len(@) - 1)]
        /\ UNCHANGED <<wasm64, queue, pc, blockedOn, ownerWait, glVars>>

\* A thread blocked in a synchronous dispatch is woken once its call has run.
SyncReturn ==
    \E t \in Threads :
        /\ pc[t] = "blocked"
        /\ req[blockedOn[t]].status = "done"
        /\ req' = [req EXCEPT ![blockedOn[t]].returned = TRUE]
        /\ pc' = [pc EXCEPT ![t] = "idle"]
        /\ blockedOn' = [blockedOn EXCEPT ![t] = 0]
        /\ UNCHANGED <<wasm64, queue, stack, ownerWait, glVars>>

\* The task running on the main thread starts to wait for worker w, and is
\* resumed when w has got to the end of what it was doing.
OwnerWaitBegin ==
    \E w \in Workers :
        /\ Running(Owner)
        /\ ownerWait' = w
        /\ UNCHANGED <<wasm64, req, queue, stack, pc, blockedOn, glVars>>

OwnerWaitEnd ==
    /\ ownerWait # 0
    /\ pc[ownerWait] = "idle"
    /\ ownerWait' = 0
    /\ UNCHANGED <<wasm64, req, queue, stack, pc, blockedOn, glVars>>

(***************************************************************************)
(* WebGL context wrappers.  EMSCRIPTEN_WEBGL_CONTEXT_HANDLE is pointer     *)
(* sized; the wrappers pass handles as int.                                *)
(***************************************************************************)

\* The handles the library hands out, in the order it does: addresses of
\* its context records.  On wasm64 an address need not fit 32 bits.
Handle(i) ==
    IF wasm64 THEN <<8 * i, 0, (i - 1) % 2, 0>> ELSE <<8 * i, 0>>
HandlePool == {Handle(i) : i \in 1..MaxContexts}

\* The int values callers pass as a handle: 0, every handle as the create
\* wrapper returns it, and an error code.
EMSCRIPTEN_RESULT_INVALID_PARAM == IntConst(0 - 5)
EMSCRIPTEN_RESULT_UNKNOWN_TARGET == IntConst(0 - 4)
EMSCRIPTEN_RESULT_INVALID_TARGET == IntConst(0 - 3)
EMSCRIPTEN_RESULT_NOT_SUPPORTED == IntConst(0 - 1)
EMSCRIPTEN_RESULT_SUCCESS == IntConst(0)
IntHandles ==
    {IntConst(0), EMSCRIPTEN_RESULT_INVALID_PARAM}
        \cup {Convert(h, Int32Limbs) : h \in HandlePool}

\* The canvas selectors callers pass; "#canvas" is the one the document has.
CanvasIds == {"#canvas", "#missing"}

\* document.querySelector(canvasId) finds a canvas.
CanvasFound(canvasId) == canvasId \in DOMAIN canvas

\* A creation call: the canvas, the options (alpha, depth, stencil,
\* antialias), the major version, and whether the browser gives a context
\* for them.
CreateCall(canvasId, opts, majorVersion, granted) ==
    [canvasId |-> canvasId, opts |-> opts, majorVersion |-> majorVersion,
     granted |-> granted]
\* Calls that ask for WebGL 1 or 2.
CreateCalls ==
    {CreateCall("#canvas", <<0, 1, 0, 1>>, 2, TRUE),
     CreateCall("#canvas", <<0, 1, 0, 1>>, 2, FALSE),
     CreateCall("#canvas", <<1, 1, 1, 0>>, 1, TRUE),
     CreateCall("#missing", <<0, 1, 0, 1>>, 2, TRUE)}
\* Calls that ask for a major version that does not exist.
UnsupportedVersionCalls ==
    {CreateCall("#canvas", <<0, 1, 0, 1>>, 0, TRUE),
     CreateCall("#canvas", <<0, 1, 0, 1>>, 0, FALSE),
     CreateCall("#canvas", <<0, 1, 0, 1>>, -1, TRUE),
     CreateCall("#canvas", <<0, 1, 0, 1>>, -1, FALSE)}

\* The record of the last wrapper call.
Call(t, op, arg, result) ==
    [thread |-> t, op |-> op, arg |-> arg,
     before |-> Convert(cur[t], Int32Limbs), result |-> result]

\* emscripten_webgl_get_current_context() on thread t.
emscripten_webgl_get_current_context(t) == cur[t]

\* int dotnet_webgl_get_current_context(void)
dotnet_webgl_get_current_context(t) ==
    Convert(emscripten_webgl_get_current_context(t), Int32Limbs)

\* A make-current that keeps one current context for the whole process.
MakeCurrent_Global(c, t, h) == [u \in Threads |-> h]

\* A make-current that takes the handle away from the thread that had it.
MakeCurrent_Exclusive(c, t, h) ==
    [u \in Threads |->
        IF u = t THEN h
        ELSE IF c[u] = h THEN Zero(em_ptr_int_t) ELSE c[u]]

\* A make-current that keeps the context the thread already has.
MakeCurrent_KeepFirst(c, t, h) ==
    IF c[t] = Zero(em_ptr_int_t) THEN [c EXCEPT ![t] = h] ELSE c

\* The effect of a successful emscripten_webgl_make_context_current(h) made
\* on thread t on the per-thread current contexts c.
emscripten_webgl_make_context_current(c, t, h) == [c EXCEPT ![t] = h]

\* emscripten_webgl_make_context_current accepts 0 (no context) and the
\* handles of existing contexts.
ValidHandle(h) == h = Zero(em_ptr_int_t) \/ h \in contexts

\* Thread t can use context h: the context of a canvas of the document is
\* reached directly on the main thread only, and from any thread when the
\* context is proxied to the main thread.
Usable(t, h) ==
    \/ h = Zero(em_ptr_int_t)
    \/ ctxAttrs[h].attrs.proxyContextToMainThread
           = "EMSCRIPTEN_WEBGL_CONTEXT_PROXY_ALWAYS"
    \/ t = Owner

\* A wrapper that makes the context current before looking at the result.
MakeContextCurrent_SetFirst(t, ctx) ==
    LET h == Convert(ctx, em_ptr_int_t) IN
    /\ cur' = emscripten_webgl_make_context_current(cur, t, h)
    /\ IF ValidHandle(h) /\ Usable(t, h)
       THEN /\ lastMade' = [lastMade EXCEPT ![t] = ctx]
            /\ last' = Call(t, "make", ctx, EMSCRIPTEN_RESULT_SUCCESS)
       ELSE /\ last' = Call(t, "make", ctx, EMSCRIPTEN_RESULT_INVALID_PARAM)
            /\ UNCHANGED lastMade

\* int dotnet_webgl_make_context_current(int ctx)
dotnet_webgl_make_context_current(t, ctx) ==
    LET h == Convert(ctx, em_ptr_int_t) IN
    IF ~ValidHandle(h)
    THEN /\ last' = Call(t, "make", ctx, EMSCRIPTEN_RESULT_INVALID_PARAM)
         /\ UNCHANGED <<cur, lastMade>>
    ELSE IF ~Usable(t, h)
    THEN /\ last' = Call(t, "make", ctx, EMSCRIPTEN_RESULT_INVALID_TARGET)
         /\ UNCHANGED <<cur, lastMade>>
    ELSE /\ cur' = emscripten_webgl_make_context_current(cur, t, h)
         /\ lastMade' = [lastMade EXCEPT ![t] = ctx]
         /\ last' = Call(t, "make", ctx, EMSCRIPTEN_RESULT_SUCCESS)

\* The attributes without line 78: proxyContextToMainThread as
\* emscripten_webgl_init_context_attributes leaves it.
Attributes_NotProxied(opts, majorVersion) ==
    [alpha |-> opts[1], depth |-> opts[2], stencil |-> opts[3],
     antialias |-> opts[4], majorVersion |-> majorVersion, minorVersion |-> 0,
     enableExtensionsByDefault |-> 1, renderViaOffscreenBackBuffer |-> 0,
     explicitSwapControl |-> 0, preserveDrawingBuffer |-> 1,
     proxyContextToMainThread |-> "EMSCRIPTEN_WEBGL_CONTEXT_PROXY_DISALLOW"]

\* The EmscriptenWebGLContextAttributes the create wrapper fills in.
Attributes(opts, majorVersion) ==
    [alpha |-> opts[1], depth |-> opts[2], stencil |-> opts[3],
     antialias |-> opts[4], majorVersion |-> majorVersion, minorVersion |-> 0,
     enableExtensionsByDefault |-> 1, renderViaOffscreenBackBuffer |-> 0,
     explicitSwapControl |-> 0, preserveDrawingBuffer |-> 1,
     proxyContextToMainThread |-> "EMSCRIPTEN_WEBGL_CONTEXT_PROXY_ALWAYS"]

\* int dotnet_webgl_create_context(const char* canvasId, int alpha, int depth,
\*     int stencil, int antialias, int majorVersion)
\* The wrapper fills in the attributes and returns what the library returns.
\* granted: whether the browser gives a context for these attributes; the
\* wrapper itself looks at none of them.
dotnet_webgl_create_context(t, canvasId, opts, majorVersion, granted) ==
    IF ~CanvasFound(canvasId)
    THEN /\ last' = Call(t, "create", IntConst(majorVersion),
                         EMSCRIPTEN_RESULT_UNKNOWN_TARGET)
         /\ UNCHANGED <<contexts, ctxAttrs>>
    ELSE IF ~granted
    THEN /\ last' = Call(t, "create", IntConst(majorVersion),
                         EMSCRIPTEN_RESULT_NOT_SUPPORTED)
         /\ UNCHANGED <<contexts, ctxAttrs>>
    ELSE LET h == Handle(Cardinality(contexts) + 1) IN
            /\ Cardinality(contexts) < MaxContexts
            /\ contexts' = contexts \cup {h}
            /\ ctxAttrs' = [k \in contexts \cup {h} |->
                              IF k = h
                              THEN [attrs |-> Attributes(opts, majorVersion),
                                    canvas |-> canvasId]
                              ELSE ctxAttrs[k]]
            /\ last' = Call(t, "create", IntConst(majorVersion),
                            Convert(h, Int32Limbs))

\* A resize that sets the bitmap to the CSS size.
SetCanvasSize_Css(c, width, height, devicePixelScale) ==
    [width |-> width \div devicePixelScale,
     height |-> height \div devicePixelScale,
     styleWidth |-> width \div devicePixelScale,
     styleHeight |-> height \div devicePixelScale]

\* The canvas after the body of dotnet_set_canvas_size_js, for a canvas c
\* that was found; devicePixelScale is dpr * zoom.
dotnet_set_canvas_size_js(c, width, height, devicePixelScale) ==
    [width |-> width, height |-> height,
     styleWidth |-> width \div devicePixelScale,
     styleHeight |-> height \div devicePixelScale]

\* void dotnet_set_canvas_size(const char* canvasId, int width, int height)
dotnet_set_canvas_size(canvasId, width, height, devicePixelScale) ==
    /\ canvas' =
          IF CanvasFound(canvasId)
          THEN [canvas EXCEPT ![canvasId] =
                  dotnet_set_canvas_size_js(@, width, height, devicePixelScale)]
          ELSE canvas
    /\ resized' = IF CanvasFound(canvasId)
                  THEN [c \in DOMAIN resized \cup {canvasId} |->
                          IF c = canvasId THEN <<width, height>> ELSE resized[c]]
                  ELSE resized

\* The backing surface of context h: the bitmap of its canvas.
BackingSurface(h) ==
    <<canvas[ctxAttrs[h].canvas].width, canvas[ctxAttrs[h].canvas].height>>

\* A get-current that asks the main thread through the synchronous dispatch.
GetCurrent_ViaMainThread ==
    \E t \in Threads :
        /\ pc[t] = "idle"
        /\ Len(req) < MaxRequests
        /\ last' = Call(t, "get", IntConst(0),
                        Convert(emscripten_webgl_get_current_context(Owner),
                                Int32Limbs))
        /\ dotnet_sync_main_thread(t)
        /\ UNCHANGED <<wasm64, ownerWait, contexts, ctxAttrs, cur, lastMade,
                       canvas, resized>>

GetCurrent ==
    \E t \in Threads :
        /\ last' = Call(t, "get", IntConst(0), dotnet_webgl_get_current_context(t))
        /\ UNCHANGED <<wasm64, dispatchVars, contexts, ctxAttrs, cur, lastMade,
                       canvas, resized>>

MakeCurrent ==
    \E t \in Threads, ctx \in IntHandles :
        /\ dotnet_webgl_make_context_current(t, ctx)
        /\ UNCHANGED <<wasm64, dispatchVars, contexts, ctxAttrs, canvas, resized>>

CreateContext ==
    \E t \in Threads, c \in CreateCalls :
        /\ dotnet_webgl_create_context(t, c.canvasId, c.opts, c.majorVersion,
                                       c.granted)
        /\ UNCHANGED <<wasm64, dispatchVars, cur, lastMade, canvas, resized>>

CreateContextUnsupportedVersion ==
    \E t \in Threads, c \in UnsupportedVersionCalls :
        /\ dotnet_webgl_create_context(t, c.canvasId, c.opts, c.majorVersion,
                                       c.granted)
        /\ UNCHANGED <<wasm64, dispatchVars, cur, lastMade, canvas, resized>>

\* The resize is made on the main thread, as the wrapper requires.
SetCanvasSize ==
    \E canvasId \in CanvasIds, width \in {400, 800}, height \in {600},
       devicePixelScale \in 1..2 :
        /\ dotnet_set_canvas_size(canvasId, width, height, devicePixelScale)
        /\ last' = Call(Owner, "resize", IntConst(width), IntConst(0))
        /\ UNCHANGED <<wasm64, dispatchVars, contexts, ctxAttrs, cur, lastMade>>

Init ==
    /\ wasm64 \in BOOLEAN
    /\ req = <<>>
    /\ queue = <<>>
    /\ stack = [t \in Threads |-> <<>>]
    /\ pc = [t \in Threads |-> "idle"]
    /\ blockedOn = [t \in Threads |-> 0]
    /\ ownerWait = 0
    /\ contexts = {}
    /\ ctxAttrs = <<>>
    /\ cur = [t \in Threads |-> Zero(em_ptr_int_t)]
    /\ lastMade = [t \in Threads |-> IntConst(0)]
    /\ last = [thread |-> Owner, op |-> "none", arg |-> IntConst(0),
               before |-> IntConst(0), result |-> IntConst(0)]
    /\ canvas = [c \in {"#canvas"} |->
                   [width |-> 300, height |-> 150,
                    styleWidth |-> 300, styleHeight |-> 150]]
    /\ resized = <<>>

Next ==
    \/ SyncDispatch
    \/ SyncDispatchArg
    \/ AsyncDispatch
    \/ OwnerDequeue
    \/ CallableReturn
    \/ SyncReturn

Spec == Init /\ [][Next]_vars

GLNext ==
    \/ CreateContext
    \/ MakeCurrent
    \/ GetCurrent

GLSpec == Init /\ [][GLNext]_vars

\* Resizing a canvas and creating contexts on it.
SurfaceNext ==
    \/ SetCanvasSize
    \/ CreateContext

SurfaceSpec == Init /\ [][SurfaceNext]_vars

\* Creating contexts with a major version that does not exist, and using
\* what the calls return.
VersionNext ==
    \/ CreateContextUnsupportedVersion
    \/ MakeCurrent

VersionSpec == Init /\ [][VersionNext]_vars

\* The main thread keeps servicing its queue: a call it can take is taken, a
\* function it is running returns.
FairSpec == Spec /\ WF_vars(OwnerDequeue) /\ WF_vars(CallableReturn)

\* Workers that hand work over with the asynchronous dispatch only, and a
\* main thread whose task may wait for a worker.
WaitNext ==
    \/ AsyncDispatch
    \/ OwnerDequeue
    \/ CallableReturn
    \/ OwnerWaitBegin
    \/ OwnerWaitEnd

WaitSpec == Init /\ [][WaitNext]_vars /\ WF_vars(OwnerWaitEnd)

(***************************************************************************)
(* Properties.                                                             *)
(***************************************************************************)
Issued == 1..Len(req)
InQueue(r) == \E i \in 1..Len(queue) : queue[i] = r
OnStack(t, r) == \E i \in 1..Len(stack[t]) : stack[t][i] = r
SyncKinds == {"sync", "sync_arg"}

\* C1: whichever dispatch function is called and whichever thread calls it,
\* the function is executed by the main (owner) thread, never by a worker.
C1_ExecutedByOwner ==
    /\ \A r \in Issued : req[r].status # "queued" => req[r].execBy = Owner
    /\ \A w \in Workers : stack[w] = <<>>

C1_Witness ==
    \E r1, r2 \in Issued :
        /\ req[r1].by \in Workers /\ req[r1].status = "done"
        /\ req[r2].by = Owner /\ req[r2].status = "done"

\* C2: a synchronous dispatch made by a worker has returned only if the main
\* thread has finished executing that call's function.
C2_SyncReturnsAfterCompletion ==
    \A r \in Issued :
        (req[r].by \in Workers /\ req[r].kind \in SyncKinds /\ req[r].returned)
            => req[r].status = "done"

C2_Witness ==
    \E r \in Issued :
        /\ req[r].by \in Workers /\ req[r].kind = "sync_arg"
        /\ req[r].returned /\ pc[req[r].by] = "idle"

C4_EventuallyExecuted ==
    /\ \A r \in 1..MaxRequests :
          (r <= Len(req) /\ req[r].by \in Workers /\ req[r].status = "queued")
              ~> (r <= Len(req) /\ req[r].status # "queued")
    /\ [][\A r \in Issued :
            (req[r].by \in Workers /\ req[r].status = "queued")
                => /\ InQueue(r)
                   /\ req'[r].status = "queued" => InQueue(r)']_vars

C4_Witness ==
    \E r1, r2 \in Issued :
        /\ r1 # r2
        /\ req[r1].by \in Workers /\ req[r1].kind = "async"
        /\ req[r2].by \in Workers /\ req[r2].kind \in SyncKinds
        /\ req[r1].status = "done" /\ req[r2].status = "done"

\* C5: the function of a dispatch call is executed at most once, exactly once
\* when it has completed, and a call that is or has been executed is no
\* longer in the main thread's queue.
C5_ExactlyOnce ==
    \A r \in Issued :
        /\ req[r].execCount <= 1
        /\ req[r].status = "done" => req[r].execCount = 1
        /\ req[r].status # "queued" => ~InQueue(r)

C5_Witness ==
    \E r1, r2 \in Issued :
        /\ r1 # r2
        /\ req[r1].kind = "async" /\ req[r2].kind \in SyncKinds
        /\ req[r1].status = "done" /\ req[r1].execCount = 1
        /\ req[r2].status = "done" /\ req[r2].execCount = 1

\* C6: with several workers in a synchronous dispatch at once, a call has
\* returned only after its own function completed, and the functions of two
\* different calls are never executing at the same time: every function
\* being executed is on the main thread's stack, at most one of them
\* dispatched by a worker.
C6_Serialized ==
    /\ \A r \in Issued :
          (req[r].by \in Workers /\ req[r].kind \in SyncKinds /\ req[r].returned)
              => req[r].status = "done"
    /\ \A r \in Issued : req[r].status = "running" => OnStack(Owner, r)
    /\ Cardinality({r \in Issued :
                       req[r].by \in Workers /\ req[r].status = "running"}) <= 1

C6_Witness ==
    \E r1, r2 \in Issued :
        /\ req[r1].by \in Workers /\ req[r2].by \in Workers
        /\ req[r1].by # req[r2].by
        /\ req[r1].kind \in SyncKinds /\ req[r2].kind \in SyncKinds
        /\ req[r1].status = "running" /\ req[r2].status = "queued"
        /\ pc[req[r1].by] = "blocked" /\ pc[req[r2].by] = "blocked"

\* C7: a synchronous dispatch made on the main thread runs its function in
\* place: nothing is queued, the call has returned only when the function
\* completed, and the main thread is never blocked, also when the call is
\* made from a function that is itself being executed on the main thread.
C7_OwnerRunsInPlace ==
    /\ pc[Owner] = "idle"
    /\ \A r \in Issued :
          (req[r].by = Owner /\ req[r].kind \in SyncKinds)
              => /\ req[r].inplace
                 /\ ~InQueue(r)
                 /\ req[r].status # "queued"
                 /\ req[r].returned <=> req[r].status = "done"

C7_Witness ==
    /\ Len(stack[Owner]) = 2
    /\ req[stack[Owner][1]].status = "running"
    /\ req[stack[Owner][2]].by = Owner
    /\ req[stack[Owner][2]].kind \in SyncKinds

\* C8: the function of a dispatch with an argument is called on the main
\* thread with the pointer-sized value the caller passed, bit for bit.
C8_ArgumentFidelity ==
    \A r \in Issued :
        (req[r].sig # "V" /\ req[r].status # "queued")
            => /\ req[r].received = req[r].arg
               /\ Len(req[r].received) = em_ptr_int_t
               /\ req[r].execBy = Owner

C8_Witness ==
    /\ wasm64
    /\ \E r1, r2 \in Issued :
        /\ req[r1].by \in Workers /\ req[r1].kind = "sync_arg"
        /\ req[r1].arg = <<MaxLimb, MaxLimb, 0, 0>>
        /\ req[r1].status = "done"
        /\ req[r2].by \in Workers /\ req[r2].kind = "async"
        /\ req[r2].arg = <<0, 0, 0, LimbBase \div 2>>
        /\ req[r2].status = "done"

\* C9: when the task on the main thread waits for a worker that hands its
\* work over with the asynchronous dispatch, the main thread and the worker
\* are never blocked on each other, and the main thread's wait ends.
C9_NoMutualWait ==
    /\ [](\A w \in Workers : ~(ownerWait = w /\ pc[w] = "blocked"))
    /\ \A w \in Workers : (ownerWait = w) ~> (ownerWait = 0)

C9_Witness ==
    /\ ownerWait \in Workers
    /\ \E r \in Issued :
        /\ req[r].by = ownerWait /\ req[r].kind = "async"
        /\ req[r].status = "queued" /\ InQueue(r)

\* C10: the get-current wrapper called on a thread returns the argument of
\* the last successful make-current made on that thread (0 if there was
\* none), whatever the other threads made current.
C10_CurrentIsPerThread ==
    /\ last.op = "get" => last.result = lastMade[last.thread]
    /\ \A t \in Threads : dotnet_webgl_get_current_context(t) = lastMade[t]

C10_Witness ==
    /\ last.op = "get"
    /\ last.result # IntConst(0)
    /\ \E u \in Threads :
        /\ u # last.thread
        /\ lastMade[u] # IntConst(0)
        /\ lastMade[u] # last.result

PROXY_ALWAYS == "EMSCRIPTEN_WEBGL_CONTEXT_PROXY_ALWAYS"
AsHandle(ctx) == Convert(ctx, em_ptr_int_t)

\* C11 as stated: at every instant a non-zero handle is current on at most
\* one thread.
C11_CurrentOnOneThreadOnly ==
    \A t, u \in Threads :
        (t # u /\ cur[t] # Zero(em_ptr_int_t)) => cur[t] # cur[u]

\* C11 as amended: a make-current changes the current handle of the calling
\* thread only; the handle current on any other thread stays current there,
\* so one handle can be current on several threads.
C11_MakeCurrentIsLocal ==
    [][\A u \in Threads :
          cur'[u] # cur[u]
              => /\ last'.op = "make"
                 /\ last'.thread = u
                 /\ last'.result = EMSCRIPTEN_RESULT_SUCCESS
                 /\ cur'[u] = AsHandle(last'.arg)]_vars

C11_Witness ==
    /\ last.op = "make"
    /\ last.result = EMSCRIPTEN_RESULT_SUCCESS
    /\ \E u \in Threads :
        /\ u # last.thread
        /\ cur[u] = cur[last.thread]
        /\ cur[u] # Zero(em_ptr_int_t)

\* C12: a create call with major version 0 or a negative one returns a
\* negative code, creates no context, and nothing it returned can be made
\* current afterwards.
C12_UnsupportedVersionRejected ==
    /\ (last.op = "create" /\ last.arg \in {IntConst(0), IntConst(0 - 1)})
          => IsNegative(last.result)
    /\ \A h \in contexts : ctxAttrs[h].attrs.majorVersion \in {1, 2}
    /\ (last.op = "make" /\ last.arg # IntConst(0)
          /\ \A h \in contexts : ctxAttrs[h].attrs.majorVersion \notin {1, 2})
          => last.result # EMSCRIPTEN_RESULT_SUCCESS

C14_GetCurrentIsLocalRead ==
    [][last'.op = "get"
          => /\ UNCHANGED <<req, queue, stack, pc, blockedOn, ownerWait>>
             /\ UNCHANGED <<contexts, ctxAttrs, cur, lastMade, canvas, resized>>
             /\ last'.result = Convert(cur[last'.thread], Int32Limbs)]_vars

C14_Witness ==
    /\ last.op = "get"
    /\ last.thread \in Workers
    /\ last.result # IntConst(0)
    /\ \E u \in Threads : u # last.thread /\ cur[u] # cur[last.thread]

\* C15: a context created on a canvas after a resize of that canvas, with no
\* resize of it in between, has a backing surface of the width and height
\* the resize asked for.
C15_CreatedAtResizedSize ==
    [][\A h \in contexts' \ contexts :
          ctxAttrs'[h].canvas \in DOMAIN resized
              => BackingSurface(h)' = resized[ctxAttrs'[h].canvas]]_vars

C15_Witness ==
    /\ last.op = "create"
    /\ "#canvas" \in DOMAIN resized
    /\ resized["#canvas"] = <<800, 600>>
    /\ canvas["#canvas"].styleWidth = 400
    /\ \E h \in contexts :
        /\ Convert(h, Int32Limbs) = last.result
        /\ BackingSurface(h) = <<800, 600>>

C17_QueuedCallsInOrder ==
    /\ \A r1, r2 \in Issued :
          (r1 < r2 /\ ~req[r1].inplace /\ ~req[r2].inplace
              /\ req[r2].status # "queued")
              => req[r1].status = "done"
    /\ \A i, j \in 1..Len(queue) : i < j => queue[i] < queue[j]

C17_Witness ==
    \E r1, r2 \in Issued :
        /\ r1 < r2
        /\ req[r1].by \in Workers /\ req[r2].by = req[r1].by
        /\ req[r1].kind = "async" /\ req[r2].kind \in SyncKinds
        /\ req[r1].status = "done" /\ req[r2].status = "running"

\* C18: a successful make-current replaces the handle the thread had: the
\* get-current wrapper then returns the new handle on that thread, and no
\* longer the old one.
C18_MakeCurrentReplaces ==
    (last.op = "make" /\ last.result = EMSCRIPTEN_RESULT_SUCCESS)
        => /\ dotnet_webgl_get_current_context(last.thread) = last.arg
           /\ last.before # last.arg
                 => dotnet_webgl_get_current_context(last.thread) # last.before

C18_Witness ==
    /\ last.op = "make"
    /\ last.result = EMSCRIPTEN_RESULT_SUCCESS
    /\ last.before # IntConst(0)
    /\ last.arg # IntConst(0)
    /\ last.before # last.arg

====
